---- MODULE Spec2Model ----
(***************************************************************************)
(* OrbitGO backend: the portfolio job pipeline.                            *)
(*                                                                         *)
(* The repository holds three generations of the pipeline, all modelled:   *)
(*   - the in-memory Worker of InchService (queue, processing,             *)
(*     processQueue, getRequestStatus, getAggregatedPortfolio);            *)
(*   - the Cloudflare Queue pipeline (enqueuePortfolioRequest sending to   *)
(*     portfolio_queue, handlePortfolioQueue, getRequestStatus);           *)
(*   - the aggregators (aggregatePortfolio over PORTFOLIO_KV, and          *)
(*     InchService.aggregatePortfolio calling the upstream directly).      *)
(*                                                                         *)
(* Strings that the code searches, compares or concatenates (KV keys,      *)
(* addresses, request ids, chain ids) are sequences of one-character       *)
(* strings, so includes(), startsWith-style prefix listing and             *)
(* localeCompare are computed, not assumed.                                *)
(***************************************************************************)
EXTENDS Integers, Sequences, FiniteSets, TLC

(***************************************************************************)
(* Bounds of the model.                                                    *)
(***************************************************************************)
\* InchService instances alive at once (one is constructed per HTTP request)
MaxInst == 2
\* jobs submitted over a run
MaxJobs == 2
\* times the queue platform hands a batch whose handler threw to the handler again
MaxRedeliver == 1
\* registry chains InchService.aggregatePortfolio calls the upstream for
MaxDirect == 3
\* records the Status Store holds when an aggregation over arbitrary
\* contents starts
MaxKeys == 2
\* jobs submitted over a run in which the order of the attempts is watched
MaxOrderJobs == 3
\* calls of enqueueMultichainPortfolioRequest over a run
MaxSubmitAll == 1
MaxPairs == 2
MaxWhReq == 2

(***************************************************************************)
(* Program constants.                                                      *)
(***************************************************************************)
MAX_RETRIES == 3

(***************************************************************************)
(* Strings as character sequences.                                         *)
(***************************************************************************)
Alphabet == <<"-", "0", "1", "2", "3", "4", "5", "6", "7", "8", "9",
              "a", "b", "c", "d", "e", "f", "i", "l", "o", "p", "r", "t", "x">>

CharRank(ch) == CHOOSE i \in 1..Len(Alphabet) : Alphabet[i] = ch

\* a.localeCompare(b) < 0 on this alphabet: punctuation, then digits, then
\* letters, compared position by position; a proper prefix sorts first.
RECURSIVE StrLess(_, _)
StrLess(a, b) ==
    IF b = <<>> THEN FALSE
    ELSE IF a = <<>> THEN TRUE
    ELSE IF Head(a) = Head(b) THEN StrLess(Tail(a), Tail(b))
    ELSE CharRank(Head(a)) < CharRank(Head(b))

\* String.prototype.startsWith / the prefix match of KV list({prefix})
StartsWith(s, p) == Len(p) <= Len(s) /\ SubSeq(s, 1, Len(p)) = p

\* String.prototype.includes
Includes(s, sub) ==
    \E i \in 1..(Len(s) - Len(sub) + 1) : SubSeq(s, i, i + Len(sub) - 1) = sub

DigitChar(d) == <<"0", "1", "2", "3", "4", "5", "6", "7", "8", "9">>[d + 1]

\* `${chainId}` for a non-negative integer
RECURSIVE NumberToString(_)
NumberToString(n) ==
    IF n < 10 THEN <<DigitChar(n)>>
    ELSE NumberToString(n \div 10) \o <<DigitChar(n % 10)>>

(***************************************************************************)
(* Chain Registry: InchService.CHAIN_NAMES.                                *)
(***************************************************************************)
\* Object.keys() of an object with integer-like keys lists them in
\* ascending numeric order, whatever the order of the literal.
CHAIN_IDS == <<1, 10, 56, 137, 324, 8453, 42161, 43114, 59144>>

getSupportedChains == CHAIN_IDS

isSupportedChain(chainId) == \E i \in 1..Len(CHAIN_IDS) : CHAIN_IDS[i] = chainId

(***************************************************************************)
(* Inputs drawn by the environment.                                        *)
(***************************************************************************)
\* Wallet addresses, shortened: the code never looks at their length.
\* The second extends the first.
Addresses == { <<"0", "x", "a">>, <<"0", "x", "a", "b">> }

\* chain ids a request body may carry: two of the registry and one (5)
\* that is not in it
SubmitChains == {1, 137, 5}

\* crypto.randomUUID(): 8-4-4-4-12 hex groups. The 8- and 12-character
\* groups are shortened to one character (no registry chain id has that
\* length); the 4-character groups are kept in full where they can spell
\* a chain id (8453), shortened otherwise.
RequestIds ==
    { <<"a", "-", "b", "-", "4", "-", "9", "-", "c">>,
      <<"a", "-", "8", "4", "5", "3", "-", "4", "-", "9", "-", "d">>,
      <<"b", "-", "c", "-", "4", "-", "8", "-", "e">> }

\* the request ids that the submissions of enqueueMultichainPortfolioRequest
\* draw, one for each chain of each call
MultiRequestIds ==
    [k \in 1..(MaxSubmitAll * Len(CHAIN_IDS)) |->
        <<"f", "-", "b", "-", "4", "-", "9", "-">> \o NumberToString(k)]

AllRequestIds == RequestIds \cup { MultiRequestIds[k] : k \in DOMAIN MultiRequestIds }

\* a PortfolioPosition, by its value_usd; a null element of the list
Pos(v) == [isNull |-> FALSE, value_usd |-> v]
NullPos == [isNull |-> TRUE, value_usd |-> 0]

\* upstream payloads: PortfolioResponse.result
Payloads == { [result |-> <<Pos(5)>>], [result |-> <<Pos(5), Pos(7)>>] }

\* what the in-memory Worker is given: it never looks into chainId,
\* address or payload, it only passes them on
MemChains == {137}
MemAddresses == { <<"0", "x", "a">> }
MemPayloads == { [result |-> <<Pos(5)>>] }

\* error.message of a rejected upstream call or store call
FetchErrors == { "Request failed with status code 500" }
StoreError == "KV put failed"

(***************************************************************************)
(* JSON.stringify / JSON.parse of a Status Record.                         *)
(* A stored value is a text; its model says what kind of text it is.       *)
(***************************************************************************)
NoPayload == [result |-> <<>>]

\* JSON.stringify({status: "completed", data, timestamp})
StringifyCompleted(data) ==
    [kind |-> "object", status |-> "completed", hasData |-> TRUE,
     hasResult |-> TRUE, result |-> data.result,
     hasError |-> FALSE, error |-> "", hasTimestamp |-> TRUE]

\* a failed record whose error is left out
StringifyFailedNoError(errorMessage) ==
    [kind |-> "object", status |-> "failed", hasData |-> FALSE,
     hasResult |-> FALSE, result |-> <<>>,
     hasError |-> FALSE, error |-> "", hasTimestamp |-> TRUE]

\* JSON.stringify({status: "failed", error, timestamp})
StringifyFailed(errorMessage) ==
    [kind |-> "object", status |-> "failed", hasData |-> FALSE,
     hasResult |-> FALSE, result |-> <<>>,
     hasError |-> TRUE, error |-> errorMessage, hasTimestamp |-> TRUE]

\* JSON.parse throws a SyntaxError on a text that is not JSON
ParseThrows(raw) == raw.kind = "corrupt"

(***************************************************************************)
(* State.                                                                  *)
(***************************************************************************)
VARIABLES
    kv,          \* PORTFOLIO_KV: key -> stored text
    jobs,        \* history: request id -> the (chainId, address) submitted with it
    queue,       \* InchService.queue of each instance
    processing,  \* InchService.processing of each instance
    pc,          \* where each instance's processQueue loop is suspended
    held,        \* what the suspended loop holds: fetched data, error message
    statusResp,  \* the last response of getRequestStatus
    fetchCount,  \* history: fetchPortfolioData calls made for each request id
    termWrites,  \* history: terminal records persisted for each request id
    fetchOk,     \* history: request ids for which an upstream call resolved
    enqSeq,      \* history: the rank of each request id among the submissions
    owed,        \* history: for each job, the jobs that were submitted and not
                 \* yet attempted when its last retried attempt ended
    fetchSeen,   \* history: some fetchPortfolioData call has been made
    cleanWait,   \* history: loops in a 1000 ms wait begun after the last call
    fullWait,    \* history: such a wait has run to its end since the last call
    unspaced,    \* history: a call was made with no full wait since the last
    callers,     \* history: the components that have called fetchPortfolioData
    cfQueue,     \* portfolio_queue: messages sent and not yet handed to the handler
    batch,       \* batch.messages of the running handlePortfolioQueue call
    bi,          \* index in batch of the message being handled
    hpc,         \* where the handler is suspended
    hheld,       \* what the suspended handler holds: fetched data, error message
    redelivered, \* times a batch was handed to the handler again
    aggPc,       \* where the running aggregation call is
    aggKind,     \* which aggregator is running
    aggAddress,  \* its address argument
    aggKeys,     \* keys.keys: the key names its listing returned
    aggPending,  \* chain id -> what the suspended callback of that chain awaits
    aggResult,   \* its result object
    aggThrew,    \* history: chains whose callback ended in the catch block
    whStore,     \* NODIT_WEBHOOK entry 'webhooks': the stored webhook list
    upstream,    \* subscriptions that exist at the webhook provider
    whReq,       \* the running createWebhooksForAllChains call of each request
    del,         \* the running DELETE route call
    delStored,   \* the running deleteStoredWebhook call
    whResp,      \* the last response of a webhook route
    whCreated,   \* history: subscriptions ever created at the provider
    whStoredOk,  \* history: subscriptions whose storeWebhook call returned
    whUnstored,  \* history: subscriptions deleteStoredWebhook was called for
    whDeleted    \* history: subscriptions the DELETE route answered 200 for

\* request ids crypto.randomUUID() has returned
usedIds == DOMAIN jobs

cfVars == <<cfQueue, batch, bi, hpc, hheld, redelivered>>

aggVars == <<aggPc, aggKind, aggAddress, aggKeys, aggPending, aggResult, aggThrew>>

memVars == <<queue, processing, pc, held>>

whVars == <<whStore, upstream, whReq, del, delStored, whResp,
            whCreated, whStoredOk, whUnstored, whDeleted>>

Instances == 1..MaxInst

\* the consumer loop of the queue handler, as a loop identity for the waits
QueueLoop == 0

NoHeld == [data |-> NoPayload, error |-> ""]

NoResp == [requestId |-> <<>>, status |-> "none", position |-> 0]

(***************************************************************************)
(* PORTFOLIO_KV.                                                           *)
(***************************************************************************)
\* a store that keeps what a key held and files a later value beside it
KVPutVersioned(store, key, value) ==
    IF key \in DOMAIN store
    THEN [k \in (DOMAIN store) \cup {key \o <<"~">>} |->
             IF k = key \o <<"~">> THEN value ELSE store[k]]
    ELSE [k \in (DOMAIN store) \cup {key} |-> IF k = key THEN value ELSE store[k]]

\* put(key, value): the value replaces whatever the key held
KVPut(store, key, value) ==
    [k \in (DOMAIN store) \cup {key} |-> IF k = key THEN value ELSE store[k]]

\* KV get: the stored text, or null when the key is absent
KVHas(store, key) == key \in DOMAIN store

\* !data : null and the empty text are both falsy
Falsy(store, key) == ~KVHas(store, key) \/ store[key].kind = "empty"

IsTerminal(raw) == raw.kind = "object" /\ raw.status \in {"completed", "failed"}

(***************************************************************************)
(* The upstream call and the waits, with their history.                    *)
(***************************************************************************)
\* fetchPortfolioData(chainId, address) is called for the job requestId
IssueFetch(requestId) ==
    /\ fetchCount' = [fetchCount EXCEPT ![requestId] = @ + 1]
    /\ unspaced' = (unspaced \/ (fetchSeen /\ ~fullWait))
    /\ fetchSeen' = TRUE
    /\ fullWait' = FALSE
    /\ cleanWait' = {}
    /\ callers' = callers \cup {"worker"}

\* setTimeout(resolve, 1000) is armed by loop l
BeginWait(l) ==
    /\ cleanWait' = cleanWait \cup {l}
    /\ UNCHANGED <<fetchCount, unspaced, fetchSeen, fullWait, callers>>

\* the timer of loop l fires, and the loop arms the next one at once
EndWaitBeginWait(l) ==
    /\ fullWait' = (fullWait \/ l \in cleanWait)
    /\ cleanWait' = cleanWait \cup {l}
    /\ UNCHANGED <<fetchCount, unspaced, fetchSeen, callers>>

\* the timer of loop l fires and the loop calls the upstream for requestId
EndWaitIssueFetch(l, requestId) ==
    /\ fetchCount' = [fetchCount EXCEPT ![requestId] = @ + 1]
    /\ unspaced' = (unspaced \/ (fetchSeen /\ ~(fullWait \/ l \in cleanWait)))
    /\ fetchSeen' = TRUE
    /\ fullWait' = FALSE
    /\ cleanWait' = {}
    /\ callers' = callers \cup {"worker"}

\* the timer of loop l fires and the loop ends
EndWait(l) ==
    /\ fullWait' = (fullWait \/ l \in cleanWait)
    /\ cleanWait' = cleanWait \ {l}
    /\ UNCHANGED <<fetchCount, unspaced, fetchSeen, callers>>

NoCall == UNCHANGED <<fetchCount, unspaced, fetchSeen, fullWait, cleanWait, callers>>

(***************************************************************************)
(* The in-memory Worker: InchService with queue and processQueue.          *)
(***************************************************************************)
\* a retry test that lets one attempt too many through
ShouldRetryOffByOne(request) == request.retryCount <= MAX_RETRIES

\* if (request.retryCount < MAX_RETRIES)
ShouldRetry(request) == request.retryCount < MAX_RETRIES

\* the catch block of processQueue, entered with error.message
\* A catch block that adds two to the retry count of a requeued job.
MemCatchSkipping(i, errorMessage) ==
    LET request == Head(queue[i]) IN
    IF ShouldRetry(request)
    THEN /\ queue' = [queue EXCEPT ![i] =
                        Append(Tail(@), [request EXCEPT !.retryCount = @ + 2])]
         /\ pc' = [pc EXCEPT ![i] = "retryDelay"]
         /\ held' = [held EXCEPT ![i] = NoHeld]
         /\ owed' = [owed EXCEPT ![request.requestId] =
                        { r \in usedIds : fetchCount[r] = 0 }]
         /\ BeginWait(i)
    ELSE /\ pc' = [pc EXCEPT ![i] = "putFailed"]
         /\ held' = [held EXCEPT ![i] = [data |-> NoPayload, error |-> errorMessage]]
         /\ NoCall
         /\ UNCHANGED <<queue, owed>>

MemCatch(i, errorMessage) ==
    LET request == Head(queue[i]) IN
    IF ShouldRetry(request)
    THEN /\ queue' = [queue EXCEPT ![i] =
                        Append(Tail(@), [request EXCEPT !.retryCount = @ + 1])]
         /\ pc' = [pc EXCEPT ![i] = "retryDelay"]
         /\ held' = [held EXCEPT ![i] = NoHeld]
         /\ owed' = [owed EXCEPT ![request.requestId] =
                        { r \in usedIds : fetchCount[r] = 0 }]
         /\ BeginWait(i)
    ELSE /\ pc' = [pc EXCEPT ![i] = "putFailed"]
         /\ held' = [held EXCEPT ![i] = [data |-> NoPayload, error |-> errorMessage]]
         /\ NoCall
         /\ UNCHANGED <<queue, owed>>

\* a submission that awaits the handling of its job: it returns once the
\* record of the job is written
MemSubmitAwaited(cap, i, chainId, address) ==
    /\ Cardinality(usedIds) < cap
    /\ \E requestId \in RequestIds \ usedIds :
        /\ jobs' = KVPut(jobs, requestId, [chainId |-> chainId, address |-> address])
        /\ enqSeq' = [enqSeq EXCEPT ![requestId] = Cardinality(usedIds) + 1]
        /\ \E data \in MemPayloads :
            kv' = KVPut(kv, requestId, StringifyCompleted(data))
        /\ termWrites' = [termWrites EXCEPT ![requestId] = @ + 1]
        /\ fetchOk' = fetchOk \cup {requestId}
        /\ IssueFetch(requestId)
    /\ UNCHANGED <<queue, processing, pc, held, statusResp>>
    /\ UNCHANGED <<cfVars, aggVars>>
    /\ UNCHANGED owed
    /\ UNCHANGED whVars

\* enqueuePortfolioRequest(chainId, address) on instance i; it starts
\* processQueue when no loop is flagged, and processQueue runs up to its
\* first await: the upstream call for queue[0]
MemSubmit(cap, i, chainId, address) ==
    /\ Cardinality(usedIds) < cap
    /\ \E requestId \in RequestIds \ usedIds :
        LET request == [chainId |-> chainId, address |-> address,
                        requestId |-> requestId, retryCount |-> 0]
            q == Append(queue[i], request)
        IN  /\ jobs' = KVPut(jobs, requestId, [chainId |-> chainId, address |-> address])
            /\ enqSeq' = [enqSeq EXCEPT ![requestId] = Cardinality(usedIds) + 1]
            /\ queue' = [queue EXCEPT ![i] = q]
            /\ IF ~processing[i]
               THEN /\ processing' = [processing EXCEPT ![i] = TRUE]
                    /\ pc' = [pc EXCEPT ![i] = "fetch"]
                    /\ IssueFetch(Head(q).requestId)
               ELSE /\ NoCall
                    /\ UNCHANGED <<processing, pc>>
    /\ UNCHANGED <<kv, held, statusResp, termWrites, fetchOk>>
    /\ UNCHANGED <<cfVars, aggVars>>
    /\ UNCHANGED owed
    /\ UNCHANGED whVars

MemEnqueue(i, chainId, address) == MemSubmit(MaxJobs, i, chainId, address)

\* await this.fetchPortfolioData(...) resolves
MemFetchOk(i) ==
    /\ pc[i] = "fetch"
    /\ \E data \in MemPayloads :
        held' = [held EXCEPT ![i] = [data |-> data, error |-> ""]]
    /\ pc' = [pc EXCEPT ![i] = "putCompleted"]
    /\ fetchOk' = fetchOk \cup {Head(queue[i]).requestId}
    /\ NoCall
    /\ UNCHANGED <<kv, jobs, queue, processing, statusResp, termWrites>>
    /\ UNCHANGED <<cfVars, aggVars>>
    /\ UNCHANGED <<enqSeq, owed>>
    /\ UNCHANGED whVars

\* await this.fetchPortfolioData(...) rejects
MemFetchFail(i) ==
    /\ pc[i] = "fetch"
    /\ \E e \in FetchErrors : MemCatch(i, e)
    /\ UNCHANGED <<kv, jobs, processing, statusResp, termWrites, fetchOk>>
    /\ UNCHANGED <<cfVars, aggVars>>
    /\ UNCHANGED enqSeq
    /\ UNCHANGED whVars

\* await PORTFOLIO_KV.put(requestId, completed) resolves; queue.shift()
\* A success path that writes the record and leaves the job at the head of
\* the queue.
MemPutCompletedOkNoShift(i) ==
    /\ pc[i] = "putCompleted"
    /\ LET request == Head(queue[i]) IN
        /\ kv' = KVPut(kv, request.requestId, StringifyCompleted(held[i].data))
        /\ termWrites' = [termWrites EXCEPT ![request.requestId] = @ + 1]
    /\ pc' = [pc EXCEPT ![i] = "rateWait"]
    /\ held' = [held EXCEPT ![i] = NoHeld]
    /\ BeginWait(i)
    /\ UNCHANGED <<jobs, queue, processing, statusResp>>
    /\ UNCHANGED <<cfVars, aggVars>>
    /\ UNCHANGED fetchOk
    /\ UNCHANGED <<enqSeq, owed>>
    /\ UNCHANGED whVars

MemPutCompletedOk(i) ==
    /\ pc[i] = "putCompleted"
    /\ LET request == Head(queue[i]) IN
        /\ kv' = KVPut(kv, request.requestId, StringifyCompleted(held[i].data))
        /\ termWrites' = [termWrites EXCEPT ![request.requestId] = @ + 1]
    /\ queue' = [queue EXCEPT ![i] = Tail(@)]
    /\ pc' = [pc EXCEPT ![i] = "rateWait"]
    /\ held' = [held EXCEPT ![i] = NoHeld]
    /\ BeginWait(i)
    /\ UNCHANGED <<jobs, processing, statusResp>>
    /\ UNCHANGED <<cfVars, aggVars>>
    /\ UNCHANGED fetchOk
    /\ UNCHANGED <<enqSeq, owed>>
    /\ UNCHANGED whVars

\* that put rejects: the same catch block handles it
MemPutCompletedFail(i) ==
    /\ pc[i] = "putCompleted"
    /\ MemCatch(i, StoreError)
    /\ UNCHANGED <<kv, jobs, processing, statusResp, termWrites, fetchOk>>
    /\ UNCHANGED <<cfVars, aggVars>>
    /\ UNCHANGED enqSeq
    /\ UNCHANGED whVars

\* the RETRY_DELAY timer fires; the rate-limit timer is armed
MemRetryDelayDone(i) ==
    /\ pc[i] = "retryDelay"
    /\ pc' = [pc EXCEPT ![i] = "rateWait"]
    /\ EndWaitBeginWait(i)
    /\ UNCHANGED <<kv, jobs, queue, processing, held, statusResp, termWrites, fetchOk>>
    /\ UNCHANGED <<cfVars, aggVars>>
    /\ UNCHANGED <<enqSeq, owed>>
    /\ UNCHANGED whVars

\* await PORTFOLIO_KV.put(requestId, failed) resolves; queue.shift()
MemPutFailedOk(i) ==
    /\ pc[i] = "putFailed"
    /\ LET request == Head(queue[i]) IN
        /\ kv' = KVPut(kv, request.requestId, StringifyFailed(held[i].error))
        /\ termWrites' = [termWrites EXCEPT ![request.requestId] = @ + 1]
    /\ queue' = [queue EXCEPT ![i] = Tail(@)]
    /\ pc' = [pc EXCEPT ![i] = "rateWait"]
    /\ held' = [held EXCEPT ![i] = NoHeld]
    /\ BeginWait(i)
    /\ UNCHANGED <<jobs, processing, statusResp>>
    /\ UNCHANGED <<cfVars, aggVars>>
    /\ UNCHANGED fetchOk
    /\ UNCHANGED <<enqSeq, owed>>
    /\ UNCHANGED whVars

\* that put rejects inside the catch block: processQueue rejects, with
\* processing left true and the request left at the head of the queue
MemPutFailedFail(i) ==
    /\ pc[i] = "putFailed"
    /\ pc' = [pc EXCEPT ![i] = "dead"]
    /\ held' = [held EXCEPT ![i] = NoHeld]
    /\ NoCall
    /\ UNCHANGED <<kv, jobs, queue, processing, statusResp, termWrites, fetchOk>>
    /\ UNCHANGED <<cfVars, aggVars>>
    /\ UNCHANGED <<enqSeq, owed>>
    /\ UNCHANGED whVars

\* the rate-limit timer fires: the while condition is tested again
\* An end of the rate-limit wait that leaves the loop without looking at the
\* queue again.
MemRateWaitDoneExiting(i) ==
    /\ pc[i] = "rateWait"
    /\ pc' = [pc EXCEPT ![i] = "idle"]
    /\ processing' = [processing EXCEPT ![i] = FALSE]
    /\ EndWait(i)
    /\ UNCHANGED <<kv, jobs, queue, held, statusResp, termWrites, fetchOk>>
    /\ UNCHANGED <<cfVars, aggVars>>
    /\ UNCHANGED <<enqSeq, owed>>
    /\ UNCHANGED whVars

MemRateWaitDone(i) ==
    /\ pc[i] = "rateWait"
    /\ IF queue[i] # <<>>
       THEN /\ pc' = [pc EXCEPT ![i] = "fetch"]
            /\ EndWaitIssueFetch(i, Head(queue[i]).requestId)
            /\ UNCHANGED processing
       ELSE /\ pc' = [pc EXCEPT ![i] = "idle"]
            /\ processing' = [processing EXCEPT ![i] = FALSE]
            /\ EndWait(i)
    /\ UNCHANGED <<kv, jobs, queue, held, statusResp, termWrites, fetchOk>>
    /\ UNCHANGED <<cfVars, aggVars>>
    /\ UNCHANGED <<enqSeq, owed>>
    /\ UNCHANGED whVars

\* queue.findIndex(r => r.requestId === requestId), 0-based, -1 when absent
FindIndex(q, requestId) ==
    IF \E n \in 1..Len(q) : q[n].requestId = requestId
    THEN (CHOOSE n \in 1..Len(q) :
            /\ q[n].requestId = requestId
            /\ \A m \in 1..(n - 1) : q[m].requestId # requestId) - 1
    ELSE -1

\* getRequestStatus(requestId) of the in-memory InchService whose queue is q
MemRequestStatus(q, requestId) ==
    IF Falsy(kv, requestId)
    THEN LET queuePosition == FindIndex(q, requestId) IN
         IF queuePosition # -1
         THEN [requestId |-> requestId, status |-> "queued",
               position |-> queuePosition + 1]
         ELSE [requestId |-> requestId, status |-> "not_found", position |-> 0]
    ELSE [requestId |-> requestId, status |-> kv[requestId].status, position |-> 0]

\* getRequestStatus called on the instance that holds the queue
MemGetRequestStatus(i) ==
    /\ \E requestId \in usedIds :
        statusResp' = MemRequestStatus(queue[i], requestId)
    /\ NoCall
    /\ UNCHANGED <<kv, jobs, queue, processing, pc, held, termWrites, fetchOk>>
    /\ UNCHANGED <<cfVars, aggVars>>
    /\ UNCHANGED <<enqSeq, owed>>
    /\ UNCHANGED whVars

\* GET /portfolio/status/:requestId : the middleware constructs a new
\* InchService for the request, whose queue is the constructor's []
MemStatusRoute ==
    /\ \E requestId \in usedIds :
        statusResp' = MemRequestStatus(<<>>, requestId)
    /\ NoCall
    /\ UNCHANGED <<kv, jobs, queue, processing, pc, held, termWrites, fetchOk>>
    /\ UNCHANGED <<cfVars, aggVars>>
    /\ UNCHANGED <<enqSeq, owed>>
    /\ UNCHANGED whVars

(***************************************************************************)
(* The Cloudflare Queue pipeline: enqueuePortfolioRequest sends to         *)
(* portfolio_queue, handlePortfolioQueue consumes batches.                 *)
(***************************************************************************)
PORTFOLIO == <<"p", "o", "r", "t", "f", "o", "l", "i", "o">>

\* `portfolio-${address}-${chainId}-${requestId}`
RecordKey(address, chainId, requestId) ==
    PORTFOLIO \o <<"-">> \o address \o <<"-">> \o NumberToString(chainId)
              \o <<"-">> \o requestId

\* enqueuePortfolioRequest(chainId, address): a fresh request id, the
\* message sent to portfolio_queue, the id returned
CfEnqueue(chainId, address) ==
    /\ Cardinality(usedIds) < MaxJobs
    /\ \E requestId \in RequestIds \ usedIds :
        /\ jobs' = KVPut(jobs, requestId, [chainId |-> chainId, address |-> address])
        /\ enqSeq' = [enqSeq EXCEPT ![requestId] = Cardinality(usedIds) + 1]
        /\ cfQueue' = Append(cfQueue, [chainId |-> chainId, address |-> address,
                                       requestId |-> requestId])
    /\ NoCall
    /\ UNCHANGED <<kv, statusResp, termWrites, fetchOk, batch, bi, hpc, hheld, redelivered>>
    /\ UNCHANGED <<memVars, aggVars>>
    /\ UNCHANGED owed
    /\ UNCHANGED whVars

\* the same ids drawn in the other order
Reverse(seq) == [n \in 1..Len(seq) |-> seq[Len(seq) + 1 - n]]

\* a mapping that leaves the first chain out
MessagesForTail(chains, address, ids) ==
    [n \in 1..(Len(chains) - 1) |->
        [chainId |-> chains[n + 1], address |-> address, requestId |-> ids[n + 1]]]

\* chains.map(chain => this.enqueuePortfolioRequest(chain, address)): the
\* messages sent, in the order of the chains, with the ids drawn
MessagesFor(chains, address, ids) ==
    [n \in 1..Len(chains) |->
        [chainId |-> chains[n], address |-> address, requestId |-> ids[n]]]

\* enqueueMultichainPortfolioRequest(address): every callback of the map
\* runs up to its await of portfolio_queue.send, then Promise.all resolves
\* with the request ids
CfEnqueueMultichain(address) ==
    LET chains == getSupportedChains
        IsFresh(id) == id \notin usedIds
        fresh == SelectSeq(MultiRequestIds, IsFresh)
    IN  /\ Len(fresh) >= Len(chains)
        /\ \E ids \in { SubSeq(fresh, 1, Len(chains)),
                         Reverse(SubSeq(fresh, 1, Len(chains))) } :
            LET msgs == MessagesFor(chains, address, ids) IN
            /\ cfQueue' = cfQueue \o msgs
            /\ jobs' = [r \in usedIds \cup { msgs[n].requestId : n \in DOMAIN msgs } |->
                          IF r \in usedIds THEN jobs[r]
                          ELSE LET n == CHOOSE m \in DOMAIN msgs : msgs[m].requestId = r
                               IN  [chainId |-> msgs[n].chainId, address |-> address]]
            /\ enqSeq' = [r \in AllRequestIds |->
                            IF \E n \in DOMAIN msgs : msgs[n].requestId = r
                            THEN Cardinality(usedIds) +
                                 (CHOOSE m \in DOMAIN msgs : msgs[m].requestId = r)
                            ELSE enqSeq[r]]
        /\ NoCall
        /\ UNCHANGED <<kv, statusResp, termWrites, fetchOk, batch, bi, hpc, hheld, redelivered>>
        /\ UNCHANGED <<memVars, aggVars>>
        /\ UNCHANGED owed
        /\ UNCHANGED whVars

\* the platform hands the first n messages to handlePortfolioQueue, which
\* runs up to its first await: the upstream call for the first message
CfDeliver(n) ==
    /\ hpc = "idle"
    /\ n \in 1..Len(cfQueue)
    /\ batch' = SubSeq(cfQueue, 1, n)
    /\ cfQueue' = SubSeq(cfQueue, n + 1, Len(cfQueue))
    /\ bi' = 1
    /\ hpc' = "fetch"
    /\ IssueFetch(cfQueue[1].requestId)
    /\ UNCHANGED <<kv, jobs, statusResp, termWrites, fetchOk, hheld, redelivered>>
    /\ UNCHANGED <<memVars, aggVars>>
    /\ UNCHANGED <<enqSeq, owed>>
    /\ UNCHANGED whVars

\* await inchService.fetchPortfolioData(chainId, address) resolves
HFetchOk ==
    /\ hpc = "fetch"
    /\ \E data \in Payloads : hheld' = [data |-> data, error |-> ""]
    /\ hpc' = "putCompleted"
    /\ fetchOk' = fetchOk \cup {batch[bi].requestId}
    /\ NoCall
    /\ UNCHANGED <<kv, jobs, statusResp, termWrites, cfQueue, batch, bi, redelivered>>
    /\ UNCHANGED <<memVars, aggVars>>
    /\ UNCHANGED <<enqSeq, owed>>
    /\ UNCHANGED whVars

\* it rejects: the catch block, with error.message
HFetchFail ==
    /\ hpc = "fetch"
    /\ \E e \in FetchErrors : hheld' = [data |-> NoPayload, error |-> e]
    /\ hpc' = "putFailed"
    /\ NoCall
    /\ UNCHANGED <<kv, jobs, statusResp, termWrites, fetchOk, cfQueue, batch, bi, redelivered>>
    /\ UNCHANGED <<memVars, aggVars>>
    /\ UNCHANGED <<enqSeq, owed>>
    /\ UNCHANGED whVars

\* await env.PORTFOLIO_KV.put(key, completed) resolves
HPutCompletedOk ==
    /\ hpc = "putCompleted"
    /\ LET m == batch[bi] IN
        /\ kv' = KVPut(kv, RecordKey(m.address, m.chainId, m.requestId),
                       StringifyCompleted(hheld.data))
        /\ termWrites' = [termWrites EXCEPT ![m.requestId] = @ + 1]
    /\ hpc' = "wait"
    /\ hheld' = NoHeld
    /\ BeginWait(QueueLoop)
    /\ UNCHANGED <<jobs, statusResp, cfQueue, batch, bi, redelivered>>
    /\ UNCHANGED <<memVars, aggVars>>
    /\ UNCHANGED fetchOk
    /\ UNCHANGED <<enqSeq, owed>>
    /\ UNCHANGED whVars

\* that put rejects: the catch block, with the store's error.message
HPutCompletedFail ==
    /\ hpc = "putCompleted"
    /\ hheld' = [data |-> NoPayload, error |-> StoreError]
    /\ hpc' = "putFailed"
    /\ NoCall
    /\ UNCHANGED <<kv, jobs, statusResp, termWrites, fetchOk, cfQueue, batch, bi, redelivered>>
    /\ UNCHANGED <<memVars, aggVars>>
    /\ UNCHANGED <<enqSeq, owed>>
    /\ UNCHANGED whVars

\* await env.PORTFOLIO_KV.put(key, failed) resolves
HPutFailedOk ==
    /\ hpc = "putFailed"
    /\ LET m == batch[bi] IN
        /\ kv' = KVPut(kv, RecordKey(m.address, m.chainId, m.requestId),
                       StringifyFailed(hheld.error))
        /\ termWrites' = [termWrites EXCEPT ![m.requestId] = @ + 1]
    /\ hpc' = "wait"
    /\ hheld' = NoHeld
    /\ BeginWait(QueueLoop)
    /\ UNCHANGED <<jobs, statusResp, cfQueue, batch, bi, redelivered>>
    /\ UNCHANGED <<memVars, aggVars>>
    /\ UNCHANGED fetchOk
    /\ UNCHANGED <<enqSeq, owed>>
    /\ UNCHANGED whVars

\* that put rejects inside the catch block: the handler rejects. No message
\* of the batch was acknowledged, so the platform retries the whole batch
\* (until its retry limit, then drops it).
HPutFailedFail ==
    /\ hpc = "putFailed"
    /\ IF redelivered < MaxRedeliver
       THEN /\ cfQueue' = batch \o cfQueue
            /\ redelivered' = redelivered + 1
       ELSE UNCHANGED <<cfQueue, redelivered>>
    /\ batch' = <<>>
    /\ bi' = 0
    /\ hpc' = "idle"
    /\ hheld' = NoHeld
    /\ NoCall
    /\ UNCHANGED <<kv, jobs, statusResp, termWrites, fetchOk>>
    /\ UNCHANGED <<memVars, aggVars>>
    /\ UNCHANGED <<enqSeq, owed>>
    /\ UNCHANGED whVars

\* the 1000 ms timer fires: the next message of the batch, or the end
HWaitDone ==
    /\ hpc = "wait"
    /\ IF bi < Len(batch)
       THEN /\ bi' = bi + 1
            /\ hpc' = "fetch"
            /\ EndWaitIssueFetch(QueueLoop, batch[bi + 1].requestId)
            /\ UNCHANGED batch
       ELSE /\ bi' = 0
            /\ hpc' = "idle"
            /\ batch' = <<>>
            /\ EndWait(QueueLoop)
    /\ UNCHANGED <<kv, jobs, statusResp, termWrites, fetchOk, cfQueue, hheld, redelivered>>
    /\ UNCHANGED <<memVars, aggVars>>
    /\ UNCHANGED <<enqSeq, owed>>
    /\ UNCHANGED whVars

\* getRequestStatus(requestId) of the queue-backed InchService:
\* PORTFOLIO_KV.get(requestId), the bare request id as the key
CfRequestStatus(requestId) ==
    IF Falsy(kv, requestId)
    THEN [requestId |-> requestId, status |-> "not_found", position |-> 0]
    ELSE [requestId |-> requestId, status |-> kv[requestId].status, position |-> 0]

CfGetRequestStatus ==
    /\ \E requestId \in usedIds : statusResp' = CfRequestStatus(requestId)
    /\ NoCall
    /\ UNCHANGED <<kv, jobs, termWrites, fetchOk, cfVars>>
    /\ UNCHANGED <<memVars, aggVars>>
    /\ UNCHANGED <<enqSeq, owed>>
    /\ UNCHANGED whVars

(***************************************************************************)
(* The Aggregator: aggregatePortfolio(address, env, context).              *)
(***************************************************************************)
\* const result = { totalValueUsd: 0, chains: [], positions: [] }
EmptyResult == [totalValueUsd |-> 0, chains |-> <<>>, positions |-> <<>>]

\* one element of result.chains (name, a function of id, and the copy of
\* the data are left out)
Entry(chainId, status, hasError, error) ==
    [id |-> chainId, status |-> status, hasError |-> hasError, error |-> error]

GENERIC_ERROR == "Internal error while aggregating data"

\* env.PORTFOLIO_KV.list({ prefix }) : the names of the keys with the prefix
ListKeys(store, prefix) == { k \in DOMAIN store : StartsWith(k, prefix) }

\* `portfolio-${address}`
SearchPattern(address) == PORTFOLIO \o <<"-">> \o address

\* keys.keys.filter(k => k.name.includes(`-${chainId}-`))
MatchingKeys(keys, chainId) ==
    { k \in keys : Includes(k, <<"-">> \o NumberToString(chainId) \o <<"-">>) }

\* .sort((a, b) => b.name.localeCompare(a.name))[0]
SelectKey(keys, chainId) ==
    CHOOSE k \in MatchingKeys(keys, chainId) :
        \A o \in MatchingKeys(keys, chainId) \ {k} : StrLess(o, k)

\* data.result.reduce((sum, pos) => sum + pos.value_usd, 0)
RECURSIVE SumValues(_)
SumValues(result) ==
    IF result = <<>> THEN 0 ELSE Head(result).value_usd + SumValues(Tail(result))

HasNull(result) == \E n \in 1..Len(result) : result[n].isNull

\* a catch block that reports nothing for the chain
AggCatchAbort(res, chainId) == res

\* the catch block of a chain's callback
AggCatch(res, chainId) ==
    [res EXCEPT !.chains = Append(@, Entry(chainId, "failed", TRUE, GENERIC_ERROR))]

\* Would the callback throw on this text? JSON.parse on a text that is not
\* JSON; parsedData.status of null; data.result of a completed record with
\* no data; the spread of a missing result; pos.value_usd of a null element.
RecordThrows(raw) ==
    \/ ParseThrows(raw)
    \/ raw.kind = "null"
    \/ /\ raw.status = "completed"
       /\ (~raw.hasData \/ ~raw.hasResult \/ HasNull(raw.result))

\* the callback of one chain from the text its get returned (lines 47-97):
\* the result object after it
AggProcess(res, chainId, store, key) ==
    IF Falsy(store, key)
    THEN [res EXCEPT !.chains = Append(@, Entry(chainId, "not_found", FALSE, ""))]
    ELSE LET raw == store[key] IN
         IF ParseThrows(raw) \/ raw.kind = "null"
         THEN AggCatch(res, chainId)
         ELSE IF raw.status # "completed"
         THEN [res EXCEPT !.chains =
                  Append(@, Entry(chainId, raw.status, raw.hasError, raw.error))]
         ELSE IF ~raw.hasData \/ ~raw.hasResult
         THEN AggCatch(res, chainId)
         ELSE IF HasNull(raw.result)
         \* result.positions.push(...data.result) has run when reduce throws
         THEN AggCatch([res EXCEPT !.positions = @ \o raw.result], chainId)
         ELSE [res EXCEPT !.positions = @ \o raw.result,
                          !.totalValueUsd = @ + SumValues(raw.result),
                          !.chains = Append(@, Entry(chainId, "completed", FALSE, ""))]

\* the chains of the registry, in its order, that have no key in the listing
ChainsWithoutKey(keys) ==
    LET NoKey(c) == MatchingKeys(keys, c) = {} IN SelectSeq(getSupportedChains, NoKey)

ChainsWithKey(keys) ==
    { getSupportedChains[n] : n \in 1..Len(getSupportedChains) } \
        { c \in { getSupportedChains[n] : n \in 1..Len(getSupportedChains) } :
            MatchingKeys(keys, c) = {} }

AggIdle == aggPc \in {"idle", "returned", "threw"}

\* aggregatePortfolio(address): the listing resolves, and every chain's
\* callback runs up to its first await. A chain with no key has pushed
\* not_found by then; the others wait for the get of their selected key.
AggStart(address) ==
    /\ AggIdle
    /\ LET keys == ListKeys(kv, SearchPattern(address))
           nf == ChainsWithoutKey(keys)
       IN  /\ aggKeys' = keys
           /\ aggResult' = [EmptyResult EXCEPT !.chains =
                  [n \in 1..Len(nf) |-> Entry(nf[n], "not_found", FALSE, "")]]
           /\ aggPending' = [c \in ChainsWithKey(keys) |-> SelectKey(keys, c)]
    /\ aggPc' = "running"
    /\ aggKind' = "kv"
    /\ aggAddress' = address
    /\ aggThrew' = {}
    /\ NoCall
    /\ UNCHANGED <<kv, jobs, statusResp, termWrites, fetchOk, cfVars, memVars>>
    /\ UNCHANGED <<enqSeq, owed>>
    /\ UNCHANGED whVars

\* the listing rejects: it is awaited outside any try, so aggregatePortfolio
\* rejects, and so does the route handler that awaits it
AggListFail(address) ==
    /\ AggIdle
    /\ aggPc' = "threw"
    /\ aggKind' = "kv"
    /\ aggAddress' = address
    /\ aggKeys' = {}
    /\ aggPending' = <<>>
    /\ aggResult' = EmptyResult
    /\ aggThrew' = {}
    /\ NoCall
    /\ UNCHANGED <<kv, jobs, statusResp, termWrites, fetchOk, cfVars, memVars>>
    /\ UNCHANGED <<enqSeq, owed>>
    /\ UNCHANGED whVars

Without(f, c) == [x \in (DOMAIN f) \ {c} |-> f[x]]

\* a callback that deletes the record it has read
AggGetOkPurging(c) ==
    /\ aggPc = "running"
    /\ aggKind = "kv"
    /\ c \in DOMAIN aggPending
    /\ aggResult' = AggProcess(aggResult, c, kv, aggPending[c])
    /\ aggThrew' = IF ~Falsy(kv, aggPending[c]) /\ RecordThrows(kv[aggPending[c]])
                   THEN aggThrew \cup {c} ELSE aggThrew
    /\ aggPending' = Without(aggPending, c)
    /\ kv' = Without(kv, aggPending[c])
    /\ NoCall
    /\ UNCHANGED <<aggPc, aggKind, aggAddress, aggKeys>>
    /\ UNCHANGED <<jobs, statusResp, termWrites, fetchOk, cfVars, memVars>>
    /\ UNCHANGED <<enqSeq, owed>>
    /\ UNCHANGED whVars

\* env.PORTFOLIO_KV.get(key.name) of chain c resolves; the callback runs on
AggGetOk(c) ==
    /\ aggPc = "running"
    /\ aggKind = "kv"
    /\ c \in DOMAIN aggPending
    /\ aggResult' = AggProcess(aggResult, c, kv, aggPending[c])
    /\ aggThrew' = IF ~Falsy(kv, aggPending[c]) /\ RecordThrows(kv[aggPending[c]])
                   THEN aggThrew \cup {c} ELSE aggThrew
    /\ aggPending' = Without(aggPending, c)
    /\ NoCall
    /\ UNCHANGED <<aggPc, aggKind, aggAddress, aggKeys>>
    /\ UNCHANGED <<kv, jobs, statusResp, termWrites, fetchOk, cfVars, memVars>>
    /\ UNCHANGED <<enqSeq, owed>>
    /\ UNCHANGED whVars

\* that get rejects: the catch block of the callback
AggGetFail(c) ==
    /\ aggPc = "running"
    /\ aggKind = "kv"
    /\ c \in DOMAIN aggPending
    /\ aggResult' = AggCatch(aggResult, c)
    /\ aggThrew' = aggThrew \cup {c}
    /\ aggPending' = Without(aggPending, c)
    /\ NoCall
    /\ UNCHANGED <<aggPc, aggKind, aggAddress, aggKeys>>
    /\ UNCHANGED <<kv, jobs, statusResp, termWrites, fetchOk, cfVars, memVars>>
    /\ UNCHANGED <<enqSeq, owed>>
    /\ UNCHANGED whVars

\* Promise.all resolves once every callback has ended: return result
AggReturn ==
    /\ aggPc = "running"
    /\ DOMAIN aggPending = {}
    /\ aggPc' = "returned"
    /\ NoCall
    /\ UNCHANGED <<aggKind, aggAddress, aggKeys, aggPending, aggResult, aggThrew>>
    /\ UNCHANGED <<kv, jobs, statusResp, termWrites, fetchOk, cfVars, memVars>>
    /\ UNCHANGED <<enqSeq, owed>>
    /\ UNCHANGED whVars

(***************************************************************************)
(* InchService.aggregatePortfolio(address) of the queue-backed service:    *)
(* it asks the upstream for every chain at once.                           *)
(***************************************************************************)
\* the chains the model runs these parallel callbacks for
DirectChains == SubSeq(getSupportedChains, 1, MaxDirect)

\* chains.map(async (chainId) => { ... await this.fetchPortfolioData(...) :
\* every callback runs up to its await, so every call is made at once
AggDirectStart(address) ==
    /\ AggIdle
    /\ aggPc' = "running"
    /\ aggKind' = "direct"
    /\ aggAddress' = address
    /\ aggKeys' = {}
    /\ aggPending' = [c \in { DirectChains[n] : n \in 1..Len(DirectChains) } |-> <<>>]
    /\ aggResult' = EmptyResult
    /\ aggThrew' = {}
    /\ callers' = callers \cup {"aggregatePortfolio"}
    /\ unspaced' = (unspaced \/ fetchSeen \/ Len(DirectChains) > 1)
    /\ fetchSeen' = TRUE
    /\ fullWait' = FALSE
    /\ cleanWait' = {}
    /\ UNCHANGED <<kv, jobs, statusResp, fetchCount, termWrites, fetchOk, cfVars, memVars>>
    /\ UNCHANGED <<enqSeq, owed>>
    /\ UNCHANGED whVars

\* the call of chain c resolves
AggDirectOk(c) ==
    /\ aggPc = "running"
    /\ aggKind = "direct"
    /\ c \in DOMAIN aggPending
    /\ \E data \in Payloads :
        aggResult' = [aggResult EXCEPT
                        !.positions = @ \o data.result,
                        !.totalValueUsd = @ + SumValues(data.result),
                        !.chains = Append(@, Entry(c, "completed", FALSE, ""))]
    /\ aggPending' = Without(aggPending, c)
    /\ NoCall
    /\ UNCHANGED <<aggPc, aggKind, aggAddress, aggKeys, aggThrew>>
    /\ UNCHANGED <<kv, jobs, statusResp, termWrites, fetchOk, cfVars, memVars>>
    /\ UNCHANGED <<enqSeq, owed>>
    /\ UNCHANGED whVars

\* the call of chain c rejects: the catch block
AggDirectFail(c) ==
    /\ aggPc = "running"
    /\ aggKind = "direct"
    /\ c \in DOMAIN aggPending
    /\ aggResult' = AggCatch(aggResult, c)
    /\ aggThrew' = aggThrew \cup {c}
    /\ aggPending' = Without(aggPending, c)
    /\ NoCall
    /\ UNCHANGED <<aggPc, aggKind, aggAddress, aggKeys>>
    /\ UNCHANGED <<kv, jobs, statusResp, termWrites, fetchOk, cfVars, memVars>>
    /\ UNCHANGED <<enqSeq, owed>>
    /\ UNCHANGED whVars

(***************************************************************************)
(* InchService.getAggregatedPortfolio(address) of the in-memory service.   *)
(***************************************************************************)
\* (supportedChains as SupportedChains).result, by chain id
supportedChainsResult == CHAIN_IDS

\* `${address}-*`
SearchPatternMem(address) == address \o <<"-", "*">>

\* keys.keys.find(k => k.name.includes(`-${chain.id}-`)) : the first match
\* of the listing, which is in ascending order of the names
FindKey(keys, chainId) ==
    CHOOSE k \in MatchingKeys(keys, chainId) :
        \A o \in MatchingKeys(keys, chainId) \ {k} : StrLess(k, o)

\* the for loop over the chains (lines 243-291): result.chains. failing
\* are the chains whose PORTFOLIO_KV.get rejects.
RECURSIVE MemAggregateChains(_, _, _, _)
MemAggregateChains(chains, keys, store, failing) ==
    IF chains = <<>> THEN <<>>
    ELSE LET c == Head(chains)
             rest == MemAggregateChains(Tail(chains), keys, store, failing)
         IN
         IF MatchingKeys(keys, c) = {}
         THEN <<Entry(c, "not_found", FALSE, "")>> \o rest
         ELSE IF c \in failing
         THEN <<Entry(c, "failed", TRUE, GENERIC_ERROR)>> \o rest
         ELSE IF Falsy(store, FindKey(keys, c))
         THEN rest                                   \* if (!data) continue
         ELSE LET raw == store[FindKey(keys, c)] IN
              IF ParseThrows(raw) \/ raw.kind = "null"
              THEN <<Entry(c, "failed", TRUE, GENERIC_ERROR)>> \o rest
              ELSE IF raw.status = "completed"
              THEN IF raw.hasData
                   THEN <<Entry(c, "completed", FALSE, "")>> \o rest
                   ELSE <<Entry(c, "failed", TRUE, GENERIC_ERROR)>> \o rest
              ELSE IF raw.status = "failed"
              THEN <<Entry(c, "failed", raw.hasError, raw.error)>> \o rest
              ELSE rest                              \* no branch for queued

\* the whole call: the listing, then the chains one after the other (the
\* result's protocols map is left out)
MemGetAggregatedPortfolio(address) ==
    /\ AggIdle
    /\ LET keys == ListKeys(kv, SearchPatternMem(address)) IN
        /\ aggKeys' = keys
        /\ \E failing \in SUBSET ChainsWithKey(keys) :
            /\ aggResult' = [EmptyResult EXCEPT !.chains =
                   MemAggregateChains(supportedChainsResult, keys, kv, failing)]
            /\ aggThrew' = failing
    /\ aggPc' = "returned"
    /\ aggKind' = "mem"
    /\ aggAddress' = address
    /\ aggPending' = <<>>
    /\ NoCall
    /\ UNCHANGED <<kv, jobs, statusResp, termWrites, fetchOk, cfVars, memVars>>
    /\ UNCHANGED <<enqSeq, owed>>
    /\ UNCHANGED whVars

(***************************************************************************)
(* Webhooks: WebhookService and its routes.                                *)
(***************************************************************************)
\* Object.keys(PROTOCOL_NETWORKS) with the networks of each protocol, as the
\* two nested loops of createWebhooksForAllChains walk them
PROTOCOL_NETWORKS ==
    << <<"aptos", "mainnet">>, <<"aptos", "testnet">>,
       <<"arbitrum", "mainnet">>, <<"arbitrum", "sepolia">>,
       <<"base", "mainnet">>, <<"base", "sepolia">>,
       <<"ethereum", "mainnet">>, <<"ethereum", "sepolia">>, <<"ethereum", "holesky">>,
       <<"kaia", "mainnet">>, <<"kaia", "kairos">>,
       <<"optimism", "mainnet">>, <<"optimism", "sepolia">>,
       <<"polygon", "mainnet">>, <<"polygon", "amoy">>,
       <<"luniverse", "mainnet">> >>

\* the pairs a call walks in the model: the first MaxPairs of the table
WhPairs == SubSeq(PROTOCOL_NETWORKS, 1, MaxPairs)

WhRequests == 1..MaxWhReq

HexChars == {"0", "1", "2", "3", "4", "5", "6", "7", "8", "9",
             "a", "b", "c", "d", "e", "f", "A", "B", "C", "D", "E", "F"}

\* z.string().regex(/^0x[a-fA-F0-9]{40}$/)
IsWebhookAddress(a) ==
    /\ Len(a) = 42
    /\ a[1] = "0"
    /\ a[2] = "x"
    /\ \A n \in 3..42 : a[n] \in HexChars

\* the addresses of the requests
WhAddressA == <<"0", "x">> \o [n \in 1..40 |-> "a"]
WhAddressB == <<"0", "x">> \o [n \in 1..40 |-> "b"]
WhAddressShort == <<"0", "x", "a">>
WhAddresses == {WhAddressA, WhAddressB, WhAddressShort}

\* the subscriptionId the provider returns for the n-th pair of request p
SubId(p, n) == <<p, n>>

SubIds == { SubId(p, n) : p \in WhRequests, n \in 1..Len(WhPairs) }

NoSub == <<0, 0>>

NoWhResp == [route |-> "none", status |-> 0, body |-> <<>>]

IdleReq == [pc |-> "idle", idx |-> 0, address |-> <<>>, cur |-> NoSub,
            local |-> <<>>, responses |-> <<>>, tried |-> <<>>]

\* the subscription ids of a webhook list, in order
IdsOf(list) == [n \in 1..Len(list) |-> list[n].subscriptionId]

IdSet(list) == { list[n].subscriptionId : n \in 1..Len(list) }

\* webhookList.webhooks.filter(webhook => webhook.subscriptionId !== subscriptionId)
FilterOut(list, subscriptionId) ==
    LET Keep(w) == w.subscriptionId # subscriptionId IN SelectSeq(list, Keep)

\* webhooks.webhooks.filter((webhook) => webhook.addresses.includes(address))
FilterByAddress(list, address) ==
    LET Has(w) == \E n \in 1..Len(w.addresses) : w.addresses[n] = address
    IN  SelectSeq(list, Has)

InitWebhook ==
    /\ whStore = <<>>
    /\ upstream = {}
    /\ whReq = [p \in WhRequests |-> IdleReq]
    /\ del = [pc |-> "idle", id |-> NoSub]
    /\ delStored = [pc |-> "idle", id |-> NoSub, local |-> <<>>]
    /\ whResp = NoWhResp
    /\ whCreated = {}
    /\ whStoredOk = {}
    /\ whUnstored = {}
    /\ whDeleted = {}

coreVars == <<kv, jobs, queue, processing, pc, held, statusResp, fetchCount,
              termWrites, fetchOk, enqSeq, owed, fetchSeen, cleanWait, fullWait,
              unspaced, callers, cfVars, aggVars>>

\* POST /: the body is parsed, and createWebhooksForAllChains runs up to the
\* createWebhook call of the first pair
WhPost(p, address) ==
    /\ whReq[p].pc = "idle"
    /\ IF IsWebhookAddress(address)
       THEN /\ whReq' = [whReq EXCEPT ![p] =
                  [IdleReq EXCEPT !.pc = "create", !.idx = 1, !.address = address,
                                  !.tried = <<1>>]]
            /\ UNCHANGED whResp
       ELSE /\ whReq' = [whReq EXCEPT ![p] = [IdleReq EXCEPT !.pc = "done"]]
            /\ whResp' = [route |-> "create", status |-> 400, body |-> <<>>]
    /\ UNCHANGED <<whStore, upstream, del, delStored,
                   whCreated, whStoredOk, whUnstored, whDeleted>>
    /\ UNCHANGED coreVars

\* the end of the body of the inner loop: the next pair, or the return of
\* createWebhooksForAllChains and the 201 of the route
WhAdvance(p, responses) ==
    IF whReq[p].idx < Len(WhPairs)
    THEN /\ whReq' = [whReq EXCEPT ![p].pc = "create",
                                   ![p].idx = @ + 1,
                                   ![p].tried = Append(@, whReq[p].idx + 1),
                                   ![p].cur = NoSub,
                                   ![p].local = <<>>,
                                   ![p].responses = responses]
         /\ UNCHANGED whResp
    ELSE /\ whReq' = [whReq EXCEPT ![p].pc = "done",
                                   ![p].cur = NoSub,
                                   ![p].local = <<>>,
                                   ![p].responses = responses]
         /\ whResp' = [route |-> "create", status |-> 201, body |-> responses]

\* createWebhook resolves: the provider has created the subscription, and
\* storeWebhook runs up to its read of the entry
WhCreateOk(p) ==
    /\ whReq[p].pc = "create"
    /\ LET id == SubId(p, whReq[p].idx) IN
        /\ upstream' = upstream \cup {id}
        /\ whCreated' = whCreated \cup {id}
        /\ whReq' = [whReq EXCEPT ![p].pc = "storeGet", ![p].cur = id]
    /\ UNCHANGED <<whStore, del, delStored, whResp, whStoredOk, whUnstored, whDeleted>>
    /\ UNCHANGED coreVars

\* createWebhook rejects: the catch block of the pair logs, the loop goes on
WhCreateFail(p) ==
    /\ whReq[p].pc = "create"
    /\ WhAdvance(p, whReq[p].responses)
    /\ UNCHANGED <<whStore, upstream, del, delStored,
                   whCreated, whStoredOk, whUnstored, whDeleted>>
    /\ UNCHANGED coreVars

\* storeWebhook: the read of the entry resolves, the webhook is pushed onto
\* the list read, and the write of the list is issued
WhStoreGetOk(p) ==
    /\ whReq[p].pc = "storeGet"
    /\ whReq' = [whReq EXCEPT ![p].pc = "storePut",
                   ![p].local = Append(whStore,
                       [subscriptionId |-> whReq[p].cur,
                        addresses |-> <<whReq[p].address>>])]
    /\ UNCHANGED <<whStore, upstream, del, delStored, whResp,
                   whCreated, whStoredOk, whUnstored, whDeleted>>
    /\ UNCHANGED coreVars

\* storeWebhook: the read or the write of the entry rejects; storeWebhook
\* rethrows into the catch block of the pair, and responses.push is skipped
WhStoreFail(p) ==
    /\ whReq[p].pc \in {"storeGet", "storePut"}
    /\ WhAdvance(p, whReq[p].responses)
    /\ UNCHANGED <<whStore, upstream, del, delStored,
                   whCreated, whStoredOk, whUnstored, whDeleted>>
    /\ UNCHANGED coreVars

\* storeWebhook: the write resolves, storeWebhook returns and the response
\* is pushed
WhStorePutOk(p) ==
    /\ whReq[p].pc = "storePut"
    /\ whStore' = whReq[p].local
    /\ whStoredOk' = whStoredOk \cup {whReq[p].cur}
    /\ WhAdvance(p, Append(whReq[p].responses, whReq[p].cur))
    /\ UNCHANGED <<upstream, del, delStored, whCreated, whUnstored, whDeleted>>
    /\ UNCHANGED coreVars

\* DELETE /:protocol/:network/webhooks/:subscriptionId up to the request to
\* the provider
WhDeleteRoute(id) ==
    /\ del.pc = "idle"
    /\ del' = [pc |-> "upstream", id |-> id]
    /\ UNCHANGED <<whStore, upstream, whReq, delStored, whResp,
                   whCreated, whStoredOk, whUnstored, whDeleted>>
    /\ UNCHANGED coreVars

\* deleteWebhook resolves and the route answers 200
WhDeleteOk ==
    /\ del.pc = "upstream"
    /\ del.id \in upstream
    /\ upstream' = upstream \ {del.id}
    /\ whDeleted' = whDeleted \cup {del.id}
    /\ whResp' = [route |-> "delete", status |-> 200, body |-> <<>>]
    /\ del' = [pc |-> "idle", id |-> NoSub]
    /\ UNCHANGED <<whStore, whReq, delStored, whCreated, whStoredOk, whUnstored>>
    /\ UNCHANGED coreVars

\* deleteWebhook rejects and the route answers with the error
WhDeleteFail ==
    /\ del.pc = "upstream"
    /\ whResp' = [route |-> "delete", status |-> 500, body |-> <<>>]
    /\ del' = [pc |-> "idle", id |-> NoSub]
    /\ UNCHANGED <<whStore, upstream, whReq, delStored,
                   whCreated, whStoredOk, whUnstored, whDeleted>>
    /\ UNCHANGED coreVars

\* deleteStoredWebhook up to the read of the entry in getStoredWebhooks
WhDeleteStored(id) ==
    /\ delStored.pc = "idle"
    /\ delStored' = [pc |-> "get", id |-> id, local |-> <<>>]
    /\ whUnstored' = whUnstored \cup {id}
    /\ UNCHANGED <<whStore, upstream, whReq, del, whResp,
                   whCreated, whStoredOk, whDeleted>>
    /\ UNCHANGED coreVars

\* the read resolves, the list is filtered and its write is issued
WhDeleteStoredGetOk ==
    /\ delStored.pc = "get"
    /\ delStored' = [delStored EXCEPT !.pc = "put",
                                      !.local = FilterOut(whStore, delStored.id)]
    /\ UNCHANGED <<whStore, upstream, whReq, del, whResp,
                   whCreated, whStoredOk, whUnstored, whDeleted>>
    /\ UNCHANGED coreVars

\* the write resolves
WhDeleteStoredPutOk ==
    /\ delStored.pc = "put"
    /\ whStore' = delStored.local
    /\ delStored' = [pc |-> "idle", id |-> NoSub, local |-> <<>>]
    /\ UNCHANGED <<upstream, whReq, del, whResp,
                   whCreated, whStoredOk, whUnstored, whDeleted>>
    /\ UNCHANGED coreVars

\* the read or the write rejects and deleteStoredWebhook rethrows
WhDeleteStoredFail ==
    /\ delStored.pc \in {"get", "put"}
    /\ delStored' = [pc |-> "idle", id |-> NoSub, local |-> <<>>]
    /\ UNCHANGED <<whStore, upstream, whReq, del, whResp,
                   whCreated, whStoredOk, whUnstored, whDeleted>>
    /\ UNCHANGED coreVars

\* GET /webhooks?address=: the stored list filtered by the address
WhGetWebhooks(address) ==
    /\ whResp' = [route |-> "list", status |-> 200,
                  body |-> IdsOf(FilterByAddress(whStore, address))]
    /\ UNCHANGED <<whStore, upstream, whReq, del, delStored,
                   whCreated, whStoredOk, whUnstored, whDeleted>>
    /\ UNCHANGED coreVars

\* GET /webhooks?address=: getStoredWebhooks rejects and the route answers 500
WhGetWebhooksFail ==
    /\ whResp' = [route |-> "list", status |-> 500, body |-> <<>>]
    /\ UNCHANGED <<whStore, upstream, whReq, del, delStored,
                   whCreated, whStoredOk, whUnstored, whDeleted>>
    /\ UNCHANGED coreVars

(***************************************************************************)
(* Initial state: nothing stored, nothing queued, no call running.         *)
(***************************************************************************)
InitHistory ==
    /\ jobs = <<>>
    /\ statusResp = NoResp
    /\ fetchCount = [r \in RequestIds |-> 0]
    /\ termWrites = [r \in RequestIds |-> 0]
    /\ fetchOk = {}
    /\ enqSeq = [r \in AllRequestIds |-> 0]
    /\ owed = [r \in RequestIds |-> {}]
    /\ fetchSeen = FALSE
    /\ cleanWait = {}
    /\ fullWait = FALSE
    /\ unspaced = FALSE
    /\ callers = {}

InitMem ==
    /\ queue = [i \in Instances |-> <<>>]
    /\ processing = [i \in Instances |-> FALSE]
    /\ pc = [i \in Instances |-> "idle"]
    /\ held = [i \in Instances |-> NoHeld]

InitQueue ==
    /\ cfQueue = <<>>
    /\ batch = <<>>
    /\ bi = 0
    /\ hpc = "idle"
    /\ hheld = NoHeld
    /\ redelivered = 0

InitAgg ==
    /\ aggPc = "idle"
    /\ aggKind = "none"
    /\ aggAddress = <<>>
    /\ aggKeys = {}
    /\ aggPending = <<>>
    /\ aggResult = EmptyResult
    /\ aggThrew = {}

Init ==
    /\ kv = <<>>
    /\ InitHistory
    /\ InitWebhook
    /\ InitMem
    /\ InitQueue
    /\ InitAgg

vars == <<kv, jobs, queue, processing, pc, held, statusResp, fetchCount,
          termWrites, fetchOk, enqSeq, owed, fetchSeen, cleanWait, fullWait, unspaced, callers,
          cfQueue, batch, bi, hpc, hheld, redelivered,
          aggPc, aggKind, aggAddress, aggKeys, aggPending, aggResult, aggThrew,
          whStore, upstream, whReq, del, delStored, whResp,
          whCreated, whStoredOk, whUnstored, whDeleted>>

(***************************************************************************)
(* The in-memory Worker as a system: submissions, loops, status reads.     *)
(***************************************************************************)
NextMem ==
    \/ \E i \in Instances, chainId \in MemChains, address \in MemAddresses :
          MemEnqueue(i, chainId, address)
    \/ \E i \in Instances : MemFetchOk(i)
    \/ \E i \in Instances : MemFetchFail(i)
    \/ \E i \in Instances : MemPutCompletedOk(i)
    \/ \E i \in Instances : MemPutCompletedFail(i)
    \/ \E i \in Instances : MemRetryDelayDone(i)
    \/ \E i \in Instances : MemPutFailedOk(i)
    \/ \E i \in Instances : MemPutFailedFail(i)
    \/ \E i \in Instances : MemRateWaitDone(i)
    \/ \E i \in Instances : MemGetRequestStatus(i)
    \/ MemStatusRoute
    \/ \E address \in MemAddresses : MemGetAggregatedPortfolio(address)

SpecMem == Init /\ [][NextMem]_vars

(***************************************************************************)
(* The Aggregator over arbitrary contents of the Status Store.             *)
(***************************************************************************)
\* a text stored under a key, by what JSON.parse makes of it
RawObject(status, hasData, hasResult, result, hasError, error) ==
    [kind |-> "object", status |-> status, hasData |-> hasData,
     hasResult |-> hasResult, result |-> result,
     hasError |-> hasError, error |-> error, hasTimestamp |-> TRUE]

RawOther(kind) ==
    [kind |-> kind, status |-> "", hasData |-> FALSE, hasResult |-> FALSE,
     result |-> <<>>, hasError |-> FALSE, error |-> "", hasTimestamp |-> FALSE]

RawValues ==
    { RawOther("empty"),          \* ""
      RawOther("corrupt"),        \* not JSON
      RawOther("null"),           \* "null"
      RawObject("queued", FALSE, FALSE, <<>>, FALSE, ""),
      RawObject("failed", FALSE, FALSE, <<>>, TRUE, "Request failed with status code 500"),
      RawObject("completed", TRUE, TRUE, <<Pos(5)>>, FALSE, ""),
      RawObject("completed", TRUE, TRUE, <<Pos(3), Pos(4)>>, FALSE, ""),
      RawObject("completed", FALSE, FALSE, <<>>, FALSE, ""),        \* no data
      RawObject("completed", TRUE, FALSE, <<>>, FALSE, ""),         \* data without result
      RawObject("completed", TRUE, TRUE, <<Pos(2), NullPos>>, FALSE, "") }

\* keys the store may hold: two records of one chain, a record whose
\* request id spells another chain's id, a record of a longer address
CandidateKeys ==
    { RecordKey(<<"0", "x", "a">>, 1, <<"a", "-", "b", "-", "4", "-", "9", "-", "c">>),
      RecordKey(<<"0", "x", "a">>, 1, <<"b", "-", "c", "-", "4", "-", "8", "-", "e">>),
      RecordKey(<<"0", "x", "a">>, 137,
                <<"a", "-", "8", "4", "5", "3", "-", "4", "-", "9", "-", "d">>),
      RecordKey(<<"0", "x", "a">>, 56, <<"a", "-", "b", "-", "4", "-", "9", "-", "c">>),
      RecordKey(<<"0", "x", "a", "b">>, 10, <<"a", "-", "b", "-", "4", "-", "9", "-", "c">>) }

InitAggStore ==
    /\ \E S \in SUBSET CandidateKeys :
        /\ Cardinality(S) <= MaxKeys
        /\ kv \in [S -> RawValues]
    /\ InitHistory
    /\ InitWebhook
    /\ InitMem
    /\ InitQueue
    /\ InitAgg

NextAgg ==
    \/ \E address \in Addresses : AggStart(address)
    \/ \E address \in Addresses : AggListFail(address)
    \/ \E c \in DOMAIN aggPending : AggGetOk(c)
    \/ \E c \in DOMAIN aggPending : AggGetFail(c)
    \/ AggReturn

SpecAgg == InitAggStore /\ [][NextAgg]_vars

(***************************************************************************)
(* getAggregatedPortfolio of the in-memory service over the contents of    *)
(* the store that its listing can return.                                  *)
(***************************************************************************)
\* a key name that starts with `${address}-*` and includes `-${chainId}-`
MemListedKey(address, chainId, rest) ==
    SearchPatternMem(address) \o <<"-">> \o NumberToString(chainId)
                             \o <<"-">> \o rest

MemCandidateKeys ==
    { MemListedKey(<<"0", "x", "a">>, 137, <<"a">>),
      MemListedKey(<<"0", "x", "a">>, 137, <<"b">>),
      MemListedKey(<<"0", "x", "a">>, 1, <<"a">>) }

InitAggMemStore ==
    /\ \E S \in SUBSET MemCandidateKeys :
        /\ Cardinality(S) <= MaxKeys
        /\ kv \in [S -> RawValues]
    /\ InitHistory
    /\ InitWebhook
    /\ InitMem
    /\ InitQueue
    /\ InitAgg

NextAggMem == \E address \in MemAddresses : MemGetAggregatedPortfolio(address)

SpecAggMem == InitAggMemStore /\ [][NextAggMem]_vars

(***************************************************************************)
(* The queue pipeline as a system: submissions, the consumer and status    *)
(* reads, interleaved. What the Aggregator makes of the records it leaves  *)
(* is SpecAgg, which starts from any content of the store.                 *)
(***************************************************************************)
Next ==
    \/ \E chainId \in SubmitChains, address \in Addresses : CfEnqueue(chainId, address)
    \/ \E n \in 1..MaxJobs : CfDeliver(n)
    \/ HFetchOk
    \/ HFetchFail
    \/ HPutCompletedOk
    \/ HPutCompletedFail
    \/ HPutFailedOk
    \/ HPutFailedFail
    \/ HWaitDone
    \/ CfGetRequestStatus

Spec == Init /\ [][Next]_vars

(***************************************************************************)
(* InchService.aggregatePortfolio of the queue-backed service, called      *)
(* again and again.                                                        *)
(***************************************************************************)
NextDirect ==
    \/ \E address \in Addresses : AggDirectStart(address)
    \/ \E c \in DOMAIN aggPending : AggDirectOk(c)
    \/ \E c \in DOMAIN aggPending : AggDirectFail(c)
    \/ AggReturn

SpecDirect == Init /\ [][NextDirect]_vars

(***************************************************************************)
(* The in-memory Worker with a store that answers every put: the order in  *)
(* which the jobs of several submissions get their attempts.               *)
(***************************************************************************)
NextOrder ==
    \/ \E i \in Instances, chainId \in MemChains, address \in MemAddresses :
          MemSubmit(MaxOrderJobs, i, chainId, address)
    \/ \E i \in Instances : MemFetchOk(i)
    \/ \E i \in Instances : MemFetchFail(i)
    \/ \E i \in Instances : MemPutCompletedOk(i)
    \/ \E i \in Instances : MemRetryDelayDone(i)
    \/ \E i \in Instances : MemPutFailedOk(i)
    \/ \E i \in Instances : MemRateWaitDone(i)

SpecOrder == Init /\ [][NextOrder]_vars

(***************************************************************************)
(* A multichain submission and aggregations, over any content of the       *)
(* store.                                                                  *)
(***************************************************************************)
NextSubmitAll ==
    \/ \E address \in Addresses : CfEnqueueMultichain(address)
    \/ \E address \in Addresses : AggStart(address)
    \/ \E address \in Addresses : AggListFail(address)
    \/ \E c \in DOMAIN aggPending : AggGetOk(c)
    \/ \E c \in DOMAIN aggPending : AggGetFail(c)
    \/ AggReturn

SpecSubmitAll == InitAggStore /\ [][NextSubmitAll]_vars

(***************************************************************************)
(* Claims.                                                                 *)
(***************************************************************************)
Registry == { CHAIN_IDS[n] : n \in 1..Len(CHAIN_IDS) }

\* the places of chain c in result.chains
EntriesOf(c) == { n \in 1..Len(aggResult.chains) : aggResult.chains[n].id = c }

TheEntry(c) == aggResult.chains[CHOOSE n \in EntriesOf(c) : TRUE]

\* the status that the text selected for chain c implies
ImpliedStatus(c) ==
    IF MatchingKeys(aggKeys, c) = {} THEN "not_found"
    ELSE IF Falsy(kv, SelectKey(aggKeys, c)) THEN "not_found"
    ELSE kv[SelectKey(aggKeys, c)].status

\* C1: when aggregatePortfolio returns, every chain whose callback threw
\* (a text that is not JSON, a completed record without a position list, a
\* rejected read) is reported once, failed, with the generic message, and
\* every other chain of the registry is reported once, with the status of
\* the record selected for it.
C1_FailureIsolated ==
    (aggPc = "returned" /\ aggKind = "kv") =>
        \A c \in Registry :
            /\ Cardinality(EntriesOf(c)) = 1
            /\ IF c \in aggThrew
               THEN TheEntry(c) = Entry(c, "failed", TRUE, GENERIC_ERROR)
               ELSE TheEntry(c).status = ImpliedStatus(c)

\* a returned aggregation in which one chain's text was not JSON and
\* another chain is reported completed
C1_Witness ==
    /\ aggPc = "returned"
    /\ aggKind = "kv"
    /\ \E c \in aggThrew, d \in Registry \ aggThrew :
        /\ MatchingKeys(aggKeys, c) # {}
        /\ kv[SelectKey(aggKeys, c)].kind = "corrupt"
        /\ EntriesOf(d) # {}
        /\ TheEntry(d).status = "completed"

\* C2: no call of aggregatePortfolio ends by rejecting, whatever store
\* operation fails.
C2_AggregateNeverRejects == aggPc # "threw"

\* the records of the in-memory Worker for (address, chain c): the store
\* keeps them under the bare request id
MemRecordsOf(address, c) ==
    { r \in usedIds : /\ jobs[r].address = address
                      /\ jobs[r].chainId = c
                      /\ r \in DOMAIN kv }

C3_ResultMatchesStore ==
    aggPc = "returned" =>
        \A c \in Registry :
            /\ Cardinality(EntriesOf(c)) = 1
            /\ IF MemRecordsOf(aggAddress, c) = {}
               THEN TheEntry(c).status = "not_found"
               ELSE TheEntry(c).status \in
                        { kv[r].status : r \in MemRecordsOf(aggAddress, c) }

\* C3: an aggregation returns exactly one entry for each chain of the
\* registry, with the status of a record stored for that address and chain,
\* or not_found when there is none.
C3_EveryChainWithItsStatus == [][aggVars' # aggVars => C3_ResultMatchesStore']_vars

\* C4: no job is given more than MAX_RETRIES + 1 = 4 upstream calls by the
\* in-memory Worker, whatever the calls and the store writes do.
C4_RetryCap == \A r \in RequestIds : fetchCount[r] <= MAX_RETRIES + 1

\* a job recorded as failed after its fourth call
C4_Witness ==
    \E r \in usedIds :
        /\ fetchCount[r] = MAX_RETRIES + 1
        /\ r \in DOMAIN kv
        /\ kv[r].status = "failed"

\* the failed record of job r, where the queue handler puts it
HasFailedRecord(r) ==
    LET key == RecordKey(jobs[r].address, jobs[r].chainId, r) IN
    key \in DOMAIN kv /\ kv[key].status = "failed"

\* C5: a job whose upstream call has failed every time has a failed record
\* only after exactly 4 calls.
C5_FailedOnlyAfterFourAttempts ==
    \A r \in usedIds \ fetchOk :
        HasFailedRecord(r) => fetchCount[r] = MAX_RETRIES + 1

\* C6: the Worker persists at most one terminal record for a request id.
C6_OneTerminalWrite == \A r \in RequestIds : termWrites[r] <= 1

\* C7: a record that is completed or failed keeps its status.
C7_TerminalIsFinal ==
    [][\A k \in DOMAIN kv : IsTerminal(kv[k]) => kv'[k].status = kv[k].status]_vars

\* C8: every upstream call but the first comes after a full 1000 ms wait
\* that began after the call before it.
C8_CallsSpaced == ~unspaced

\* C9: nothing but the Worker calls fetchPortfolioData.
C9_OnlyWorkerFetches == callers \subseteq {"worker"}

\* C10: a status read for a submitted job with no terminal record yet
\* answers queued.
C10_QueuedUntilTerminal ==
    (statusResp # NoResp /\ termWrites[statusResp.requestId] = 0) =>
        statusResp.status = "queued"

\* C11: a status read made after the Worker has persisted the terminal
\* record of a job, with the request id the submission returned, answers
\* completed or failed, never not_found.
C11_TerminalRecordRetrievable ==
    [][(statusResp' # statusResp /\ termWrites[statusResp'.requestId] > 0) =>
           statusResp'.status \in {"completed", "failed"}]_vars

\* of the records the store holds for (address, c), the one whose key is
\* the greatest
GreatestRecord(address, c) ==
    CHOOSE r \in MemRecordsOf(address, c) :
        \A o \in MemRecordsOf(address, c) \ {r} : StrLess(o, r)

C12_GreatestKeyUsed ==
    aggPc = "returned" =>
        \A c \in Registry :
            Cardinality(MemRecordsOf(aggAddress, c)) >= 2 =>
                /\ EntriesOf(c) # {}
                /\ TheEntry(c).status = kv[GreatestRecord(aggAddress, c)].status

\* C12: when the store holds two or more records of one address and chain,
\* an aggregation reports that chain from the record of the greatest key.
C12_MostRecentWins == [][aggVars' # aggVars => C12_GreatestKeyUsed']_vars

\* C13: the key aggregatePortfolio reads for chain c is the key of a record
\* stored for exactly the address asked for and exactly chain c.
C13_KeyOfThatAddressAndChain ==
    aggKind = "kv" =>
        \A c \in DOMAIN aggPending :
            \E requestId \in RequestIds :
                aggPending[c] = RecordKey(aggAddress, c, requestId)

\* C14: every record of the store is under the key
\* portfolio-{address}-{chainId}-{requestId} of the job it belongs to.
C14_RecordKeyFormat ==
    \A k \in DOMAIN kv :
        \E r \in usedIds : k = RecordKey(jobs[r].address, jobs[r].chainId, r)

\* C15: the next attempt of a retried job J starts only after every job
\* that was submitted before J's failed attempt ended has had its first
\* attempt.
C15_RetryAfterWaitingJobs ==
    [][\A j \in RequestIds :
           fetchCount'[j] > fetchCount[j] =>
               \A k \in owed[j] : fetchCount'[k] > 0]_vars

\* C16: of two submitted jobs, the one submitted later has had no attempt
\* as long as the one submitted earlier has had none.
C16_FirstAttemptsInSubmissionOrder ==
    \A a \in usedIds, b \in usedIds :
        (enqSeq[a] < enqSeq[b] /\ fetchCount[b] > 0) => fetchCount[a] > 0

\* C17: no submission with a chain id outside the registry is accepted: no
\* request id is returned for it, no message of it is queued, no upstream
\* call is made for it.
C17_UnsupportedChainRejected ==
    /\ \A r \in usedIds : isSupportedChain(jobs[r].chainId)
    /\ \A n \in 1..Len(cfQueue) : isSupportedChain(cfQueue[n].chainId)

\* C18: every record of the store is a JSON object whose status is queued,
\* completed or failed, with data exactly when completed, error exactly
\* when failed, and a timestamp.
C18_RecordShape ==
    \A k \in DOMAIN kv :
        /\ kv[k].kind = "object"
        /\ kv[k].status \in {"queued", "completed", "failed"}
        /\ kv[k].hasData <=> kv[k].status = "completed"
        /\ kv[k].hasError <=> kv[k].status = "failed"
        /\ kv[k].hasTimestamp

\* the store holds a completed record and a failed record, both written
\* by the queue handler
C18_Witness ==
    \E k1 \in DOMAIN kv, k2 \in DOMAIN kv :
        /\ kv[k1].status = "completed"
        /\ kv[k2].status = "failed"
        /\ \E r \in usedIds : HasFailedRecord(r) /\ termWrites[r] > 0

\* the position lists of the chains that entries reports completed, one
\* after the other
RECURSIVE CompletedPositions(_)
CompletedPositions(entries) ==
    IF entries = <<>> THEN <<>>
    ELSE (IF Head(entries).status = "completed"
          THEN kv[SelectKey(aggKeys, Head(entries).id)].result
          ELSE <<>>) \o CompletedPositions(Tail(entries))

\* C19: the positions of a returned aggregation are the position lists of
\* the chains it reports completed, and nothing else.
C19_PositionsOfCompletedChains ==
    (aggPc = "returned" /\ aggKind = "kv") =>
        aggResult.positions = CompletedPositions(aggResult.chains)

\* the record getAggregatedPortfolio reads for chain c
MemSelected(c) == kv[FindKey(aggKeys, c)]

\* C20: a chain whose selected record is queued is reported queued, and a
\* chain whose selected record is failed is reported failed with the error
\* of that record.
C20_StatusPropagated ==
    (aggPc = "returned" /\ aggKind = "mem") =>
        \A c \in Registry \ aggThrew :
            ( /\ MatchingKeys(aggKeys, c) # {}
              /\ ~Falsy(kv, FindKey(aggKeys, c))
              /\ MemSelected(c).kind = "object"
              /\ MemSelected(c).status \in {"queued", "failed"} ) =>
                /\ Cardinality(EntriesOf(c)) = 1
                /\ TheEntry(c).status = MemSelected(c).status
                /\ MemSelected(c).status = "failed" =>
                       /\ TheEntry(c).hasError
                       /\ TheEntry(c).error = MemSelected(c).error

\* the messages a step has appended to the queue
Appended == SubSeq(cfQueue', Len(cfQueue) + 1, Len(cfQueue'))

Returned == usedIds' \ usedIds

\* C22: the step in which a submission returns its request id records the
\* job at the tail of a queue and does nothing else: no upstream call has
\* resolved in it, no record is written in it, and the jobs ahead are where
\* they were.
C22_SubmitReturnsAtOnce ==
    [][Returned # {} =>
          /\ kv' = kv
          /\ termWrites' = termWrites
          /\ fetchOk' = fetchOk
          /\ held' = held
          /\ \A r \in Returned :
               \/ \E i \in Instances :
                    /\ queue'[i] = Append(queue[i],
                          [chainId |-> jobs'[r].chainId, address |-> jobs'[r].address,
                           requestId |-> r, retryCount |-> 0])
                    /\ pc'[i] = IF processing[i] THEN pc[i] ELSE "fetch"
               \/ \E n \in (Len(cfQueue) + 1)..Len(cfQueue') :
                    cfQueue'[n].requestId = r]_vars

\* a submission has returned while the upstream call of the job ahead of
\* it was in flight
C22_Witness ==
    \E i \in Instances :
        /\ pc[i] = "fetch"
        /\ Len(queue[i]) = 2
        /\ \A n \in 1..2 : queue[i][n].requestId \in usedIds
        /\ fetchCount[queue[i][2].requestId] = 0

\* the key under which the queue handler stores the record of job r
KeyOf(r) == RecordKey(jobs[r].address, jobs[r].chainId, r)

C24_AggregationReadsOnly ==
    [][aggVars' # aggVars =>
          /\ kv' = kv
          /\ jobs' = jobs
          /\ cfQueue' = cfQueue
          /\ batch' = batch
          /\ queue' = queue]_vars

\* an aggregation over a store that holds records has returned after the
\* processing of a chain threw
C24_Witness ==
    /\ aggPc = "returned"
    /\ aggKind = "kv"
    /\ aggThrew # {}
    /\ DOMAIN kv # {}
    /\ Len(aggResult.chains) = Len(CHAIN_IDS)

(***************************************************************************)
(* The stored webhook list under concurrency: POST requests running at the *)
(* same time, and deleteStoredWebhook calls.                               *)
(***************************************************************************)
NextWebhook ==
    \/ \E p \in WhRequests, address \in WhAddresses : WhPost(p, address)
    \/ \E p \in WhRequests : WhCreateOk(p)
    \/ \E p \in WhRequests : WhCreateFail(p)
    \/ \E p \in WhRequests : WhStoreGetOk(p)
    \/ \E p \in WhRequests : WhStoreFail(p)
    \/ \E p \in WhRequests : WhStorePutOk(p)
    \/ \E id \in whStoredOk : WhDeleteStored(id)
    \/ WhDeleteStoredGetOk
    \/ WhDeleteStoredPutOk
    \/ WhDeleteStoredFail

SpecWebhook == Init /\ [][NextWebhook]_vars

(***************************************************************************)
(* The webhook routes: one POST request, the DELETE route and reads of the *)
(* stored list.                                                            *)
(***************************************************************************)
NextWebhookRoutes ==
    \/ \E address \in WhAddresses : WhPost(1, address)
    \/ WhCreateOk(1)
    \/ WhCreateFail(1)
    \/ WhStoreGetOk(1)
    \/ WhStoreFail(1)
    \/ WhStorePutOk(1)
    \/ \E id \in whCreated : WhDeleteRoute(id)
    \/ WhDeleteOk
    \/ WhDeleteFail
    \/ \E address \in WhAddresses : WhGetWebhooks(address)
    \/ WhGetWebhooksFail

SpecWebhookRoutes == Init /\ [][NextWebhookRoutes]_vars

\* ---------------------------------------------------------------------
\* The in-memory worker under fair scheduling: every pending continuation
\* of a worker loop (a settled upstream call, a settled store write, an
\* elapsed timer) is eventually run by the event loop.  Whether a call or a
\* write settles with success or with failure is left open.
\* ---------------------------------------------------------------------
NextLive ==
    \/ \E i \in Instances, chainId \in MemChains, address \in MemAddresses :
          MemEnqueue(i, chainId, address)
    \/ \E i \in Instances : MemFetchOk(i)
    \/ \E i \in Instances : MemFetchFail(i)
    \/ \E i \in Instances : MemPutCompletedOk(i)
    \/ \E i \in Instances : MemPutCompletedFail(i)
    \/ \E i \in Instances : MemRetryDelayDone(i)
    \/ \E i \in Instances : MemPutFailedOk(i)
    \/ \E i \in Instances : MemPutFailedFail(i)
    \/ \E i \in Instances : MemRateWaitDone(i)

FairLive ==
    \A i \in Instances :
        /\ WF_vars(MemFetchOk(i) \/ MemFetchFail(i))
        /\ WF_vars(MemPutCompletedOk(i) \/ MemPutCompletedFail(i))
        /\ WF_vars(MemRetryDelayDone(i))
        /\ WF_vars(MemPutFailedOk(i) \/ MemPutFailedFail(i))
        /\ WF_vars(MemRateWaitDone(i))

SpecLive == Init /\ [][NextLive]_vars /\ FairLive

\* C25: between the end of an attempt and the next call to the upstream a
\* worker loop waits one interval only, whatever the outcome of the attempt:
\* a loop that comes out of a wait never goes into a second wait.
C25_OneWaitAfterEveryAttempt ==
    [][\A i \in Instances :
          (pc[i] \in {"retryDelay", "rateWait"} /\ pc'[i] # pc[i]) =>
              pc'[i] \notin {"retryDelay", "rateWait"}]_vars

\* the retry counts of the queued jobs of an instance
RetryCounts(q) == { q[n].retryCount : n \in 1..Len(q) }

\* the queued job of an id, in a queue that holds it
QueuedJob(q, r) == q[CHOOSE n \in 1..Len(q) : q[n].requestId = r]

QueuedIds(q) == { q[n].requestId : n \in 1..Len(q) }

\* C26: the retry count of a queued job is in 0..MAX_RETRIES in every
\* state, is 0 when the job enters a queue, and a step changes it by adding
\* one or not at all.
C26_RetryCountBounded ==
    /\ [](\A i \in Instances : RetryCounts(queue[i]) \subseteq 0..MAX_RETRIES)
    /\ [][\A i \in Instances : \A r \in QueuedIds(queue'[i]) :
            IF r \in QueuedIds(queue[i])
            THEN QueuedJob(queue'[i], r).retryCount \in
                    { QueuedJob(queue[i], r).retryCount,
                      QueuedJob(queue[i], r).retryCount + 1 }
            ELSE QueuedJob(queue'[i], r).retryCount = 0]_vars

\* a job waits in a queue with MAX_RETRIES retries counted
C26_Witness ==
    \E i \in Instances : MAX_RETRIES \in RetryCounts(queue[i])

\* C27: a job whose terminal record has been written is in no queue, and
\* the upstream is never called for it again.
C27_WrittenJobIsGone ==
    /\ [](\A r \in usedIds : termWrites[r] >= 1 =>
              \A i \in Instances : r \notin QueuedIds(queue[i]))
    /\ [][\A r \in usedIds : termWrites[r] >= 1 =>
              fetchCount'[r] = fetchCount[r]]_vars

\* the completed record of a job was written after a retried attempt, and
\* a later job is being fetched
C27_Witness ==
    \E r \in usedIds :
        /\ termWrites[r] = 1
        /\ fetchCount[r] >= 2
        /\ r \in fetchOk
        /\ \E i \in Instances : pc[i] = "fetch"

\* C28: at any time at most one worker loop is active and at most one call
\* to the upstream is in flight, over all the instances of the service.
C28_OneLoopOneCall ==
    /\ Cardinality({ i \in Instances : processing[i] }) <= 1
    /\ Cardinality({ i \in Instances : pc[i] = "fetch" }) <= 1

\* C29: under fair scheduling every accepted job eventually has a terminal
\* record written for it.
C29_EveryJobGetsARecord ==
    \A r \in RequestIds : (r \in usedIds) ~> (termWrites[r] >= 1)

\* C30: the queue handler takes the messages of a batch one at a time in
\* batch order.  It leaves a message only from the wait that follows the
\* write of the record of that message; a call to the upstream is for the
\* message the handler has just moved to, the first of a new batch or the
\* next of the current one; a write is the single record of the current
\* message, completed when the call resolved and failed with the message of
\* the upstream when it rejected.
C30_OneAtATimeInOrder ==
    [][/\ (hpc # "idle" /\ bi' # bi) =>
            /\ hpc = "wait"
            /\ KVHas(kv, RecordKey(batch[bi].address, batch[bi].chainId,
                                   batch[bi].requestId))
       /\ \A r \in RequestIds : fetchCount'[r] # fetchCount[r] =>
            /\ fetchCount'[r] = fetchCount[r] + 1
            /\ hpc' = "fetch"
            /\ bi' = (IF hpc = "idle" THEN 1 ELSE bi + 1)
            /\ batch'[bi'].requestId = r
       /\ \A r \in RequestIds : termWrites'[r] # termWrites[r] =>
            /\ termWrites'[r] = termWrites[r] + 1
            /\ hpc \in {"putCompleted", "putFailed"}
            /\ hpc' = "wait"
            /\ batch[bi].requestId = r
            /\ LET rec == kv'[RecordKey(batch[bi].address, batch[bi].chainId, r)] IN
                 IF hpc = "putCompleted"
                 THEN rec.status = "completed"
                 ELSE /\ rec.status = "failed"
                      /\ rec.error \in FetchErrors]_vars

\* C31: on every instance the flag processing is set only while a consumer
\* loop is running, a loop that is at one of its awaits and will go on with
\* the queue.
C31_FlagMeansLoopRunning ==
    \A i \in Instances :
        processing[i] =>
            pc[i] \in {"fetch", "putCompleted", "retryDelay", "putFailed", "rateWait"}

\* C32: no instance has a job in its queue while its flag processing is
\* false, whatever the point of the loop at which the job was enqueued.
C32_NoLostWakeUp ==
    \A i \in Instances : queue[i] # <<>> => processing[i]

\* a job was enqueued while the loop was in the wait after its last job:
\* the loop has written a record, its queue holds one job that was never
\* fetched, and the wait has not ended
C32_Witness ==
    \E i \in Instances :
        /\ pc[i] = "rateWait"
        /\ Len(queue[i]) = 1
        /\ fetchCount[Head(queue[i]).requestId] = 0
        /\ \E r \in usedIds : termWrites[r] >= 1

\* the chains in the order in which their entries are pushed when the reads
\* complete in the order in which they were issued: the chains with no
\* listed key first, pushed before any read completes, then the others
IssueOrder ==
    LET Keyed(c) == MatchingKeys(aggKeys, c) # {} IN
    ChainsWithoutKey(aggKeys) \o SelectSeq(getSupportedChains, Keyed)

RECURSIVE PositionsInOrder(_)
PositionsInOrder(chains) ==
    IF chains = <<>> THEN <<>>
    ELSE (IF TheEntry(Head(chains)).status = "completed"
          THEN kv[SelectKey(aggKeys, Head(chains))].result
          ELSE <<>>) \o PositionsInOrder(Tail(chains))

\* C33: over an unchanged store a returned aggregation has the entries of
\* chains, and the positions of the completed chains when no chain failed,
\* in the one order fixed by the registry and the listing, whatever the
\* order in which the reads of the chains completed.
C33_ResultIndependentOfReadOrder ==
    (aggPc = "returned" /\ aggKind = "kv") =>
        /\ [n \in 1..Len(aggResult.chains) |-> aggResult.chains[n].id] = IssueOrder
        /\ (\A n \in 1..Len(aggResult.chains) :
                aggResult.chains[n].status # "failed") =>
              aggResult.positions = PositionsInOrder(IssueOrder)

\* the reads completed in the order in which they were issued: a returned
\* aggregation over two chains with records has its entries in that order
C33_InIssueOrder ==
    ~ (/\ aggPc = "returned"
       /\ aggKind = "kv"
       /\ Cardinality({ c \in Registry : MatchingKeys(aggKeys, c) # {} }) = 2
       /\ [n \in 1..Len(aggResult.chains) |-> aggResult.chains[n].id] = IssueOrder)

\* C34: once every storeWebhook and deleteStoredWebhook call has returned,
\* the stored list holds every webhook whose storeWebhook call returned
\* successfully and that deleteStoredWebhook was not called for.
C34_NoStoredWebhookLost ==
    (/\ \A p \in WhRequests : whReq[p].pc \in {"idle", "done"}
     /\ delStored.pc = "idle") =>
        (whStoredOk \ whUnstored) \subseteq IdSet(whStore)

\* C35: a 200 answer of GET /webhooks holds no subscription that the DELETE
\* route has answered 200 for.
C35_DeletedNotListed ==
    (whResp.route = "list" /\ whResp.status = 200) =>
        \A n \in 1..Len(whResp.body) : whResp.body[n] \notin whDeleted

\* C36: a createWebhooksForAllChains call that has returned has called
\* createWebhook for every pair in the order of the table, the list it
\* returned holds exactly the subscriptions the provider created for it, and
\* each of them is in the stored list.
C36_CreatedReturnedAndStored ==
    \A p \in WhRequests :
        (whReq[p].pc = "done" /\ whReq[p].tried # <<>>) =>
            /\ whReq[p].tried = [n \in 1..Len(WhPairs) |-> n]
            /\ { whReq[p].responses[n] : n \in 1..Len(whReq[p].responses) } =
                   { id \in whCreated : id[1] = p }
            /\ \A n \in 1..Len(whReq[p].responses) :
                   whReq[p].responses[n] \in IdSet(whStore)

====
